---- MODULE Spec2Model ----
(***************************************************************************)
(* StreamVLM streaming orchestration: the zustand store (useAppStore), the *)
(* WebSocketService transport, the App component's streaming effect        *)
(* (capture pacer) and its command handlers, and the camera hook's         *)
(* captureFrame, as found in src/src/services/api.ts and                   *)
(* src/src/hooks/useCamera.ts.                                             *)
(*                                                                         *)
(* One JavaScript event-loop task is one action.  A store update made by a *)
(* task re-renders App, and the streaming effect (cleanup, then body) runs *)
(* as part of the same action whenever one of its dependencies changed.    *)
(***************************************************************************)
EXTENDS Integers, Sequences, FiniteSets

VARIABLES
  \* useAppStore fields
  currentSession, frameHistory, temporalContext,
  isConnected, isProcessing, isStreaming, error, delaySeconds,
  \* useCamera state
  cameraOn,
  \* App refs and browser interval timers
  wsRef, intervalRef, timers,
  \* WebSocketService fields, live WebSocket objects, pending setTimeouts
  reconnectAttempts, sockets, reconnTimers,
  \* history variables
  seq, lastOp, stopRun, sinceStart, cleared, closeRun, resetSession

storeVars == <<currentSession, frameHistory, temporalContext, isConnected,
               isProcessing, isStreaming, error, delaySeconds>>
wsVars    == <<reconnectAttempts, sockets, reconnTimers>>
pacerVars == <<intervalRef, timers>>
vars == <<currentSession, frameHistory, temporalContext, isConnected,
          isProcessing, isStreaming, error, delaySeconds, cameraOn, wsRef,
          intervalRef, timers, reconnectAttempts, sockets, reconnTimers,
          seq, lastOp, stopRun, sinceStart, cleared, closeRun, resetSession>>

----------------------------------------------------------------------------
\* Program constants

HistoryCap == 50
maxReconnectAttempts == 5
reconnectDelay == 1000

\* Bounds of the model
MaxQueries == 2
MaxStartPending == 2
MaxStoreFrames == 52
MaxSockets == 2

\* delaySeconds values the settings slider is moved to (seconds)
DelayChoices == {1, 2, 5}

\* null / undefined
Null == 0
SessionIds == {1, 2}
NoTimer == [delay |-> 0, session |-> Null, cam |-> FALSE]

\* error: null
NoError         == "null"
ErrNotConnected == "WebSocket not connected"
ErrVlmFailed    == "VLM query failed"
ErrRemote       == "remote error"
ErrWsConnection == "WebSocket connection error"
ErrMaxReconnect == "Failed to reconnect after maximum attempts"
ErrBackend      == "Backend is not available"
ErrInitialize   == "Failed to initialize application"

----------------------------------------------------------------------------
\* Pure helpers

\* Array.prototype.slice(-n): the last n elements
SliceLast(s, n) ==
  IF Len(s) <= n THEN s ELSE SubSeq(s, Len(s) - n + 1, Len(s))

\* addFrame keeping the first 50 records instead of the last 50: slice(0, 50)
addFrame_KeepFirst(h, frame) ==
  IF Len(h) < HistoryCap THEN Append(h, frame) ELSE SubSeq(h, 1, HistoryCap)

\* useAppStore.addFrame: [...state.frameHistory, frame].slice(-50)
addFrame(h, frame) == SliceLast(Append(h, frame), HistoryCap)

RemoveAt(s, i) == SubSeq(s, 1, i - 1) \o SubSeq(s, i + 1, Len(s))

\* The temporal_context payload of the vlm_response for frame k.  Each payload
\* carries its own last_update stamp, so payloads of different responses differ;
\* the payload is identified by the frame it came with.
TemporalContextOf(k) == k

FrameIds(h) == [i \in 1..Len(h) |-> h[i].frame_id]

\* the socket this.ws refers to, when it is still live
CurIdx(socks) == {i \in 1..Len(socks) : socks[i].cur}

\* vlm_query messages transmitted on a live socket and not yet answered
Outstanding(socks) ==
  UNION {socks[i].queries : i \in 1..Len(socks)}

----------------------------------------------------------------------------
\* WebSocketService

\* send without the readyState check: the message is handed to this.ws in
\* whatever state it is and goes out once the socket is open
send_IgnoresState(socks, msg) ==
  [i \in 1..Len(socks) |->
      IF socks[i].cur
      THEN IF msg.type = "vlm_query"
           THEN [socks[i] EXCEPT !.queries = @ \cup {msg}]
           ELSE [socks[i] EXCEPT !.starts = @ + 1]
      ELSE socks[i]]

\* WebSocketService.send: transmit on this.ws when its readyState is OPEN,
\* otherwise warn and drop.  A transmitted message is with the service until
\* it is answered: vlm_query messages as a set (each carries its own send
\* number), start_session messages, which are all alike, as a count.
send(socks, msg) ==
  [i \in 1..Len(socks) |->
      IF socks[i].cur /\ socks[i].st = "OPEN"
      THEN IF msg.type = "vlm_query"
           THEN [socks[i] EXCEPT !.queries = @ \cup {msg}]
           ELSE [socks[i] EXCEPT !.starts = @ + 1]
      ELSE socks[i]]

Transmits(socks) == \E i \in CurIdx(socks) : socks[i].st = "OPEN"

\* the body of connect(): this.ws = new WebSocket(url) with the four handlers.
\* awaited: the returned promise is the one initializeApp awaits (its rejection
\* is caught there); the reconnect timer's connect() only logs a rejection.
connect(socks, awaited) ==
  Append([i \in 1..Len(socks) |-> [socks[i] EXCEPT !.cur = FALSE]],
         [st |-> "CONNECTING", cur |-> TRUE, queries |-> {}, starts |-> 0,
          awaited |-> awaited])

\* WebSocketService.disconnect: this.ws.close() starts the closing handshake of
\* the socket this.ws refers to (a no-op on a socket that has closed), then
\* this.ws = null.  The handlers stay attached to the socket.
disconnect(socks) ==
  [i \in 1..Len(socks) |->
      IF socks[i].cur
      THEN [socks[i] EXCEPT !.st = "CLOSING", !.cur = FALSE]
      ELSE socks[i]]

----------------------------------------------------------------------------
\* App streaming effect: cleanup of the previous run, then the body, run
\* when a dependency changed

\* the streaming effect without its cleanup: the interval of the previous run
\* is never cleared
StreamingEffect_NoCleanup(settingsChanged) ==
  LET depsChanged ==
        \/ settingsChanged
        \/ <<isStreaming', isConnected', isProcessing', currentSession', cameraOn'>>
             # <<isStreaming, isConnected, isProcessing, currentSession, cameraOn>>
      t == [delay |-> delaySeconds', session |-> currentSession', cam |-> cameraOn']
  IN IF ~depsChanged
     THEN UNCHANGED <<intervalRef, timers>>
     ELSE IF isStreaming' /\ isConnected' /\ ~isProcessing'
          THEN intervalRef' = t /\ timers' = timers \cup {t}
          ELSE intervalRef' = NoTimer /\ timers' = timers

\* the streaming effect without settings among its dependencies: a settings
\* change alone does not re-run it
StreamingEffect_IgnoresSettings(settingsChanged) ==
  LET depsChanged ==
        <<isStreaming', isConnected', isProcessing', currentSession', cameraOn'>>
          # <<isStreaming, isConnected, isProcessing, currentSession, cameraOn>>
      cleaned == timers \ {intervalRef}
      t == [delay |-> delaySeconds', session |-> currentSession', cam |-> cameraOn']
  IN IF ~depsChanged
     THEN UNCHANGED <<intervalRef, timers>>
     ELSE IF isStreaming' /\ isConnected' /\ ~isProcessing'
          THEN intervalRef' = t /\ timers' = cleaned \cup {t}
          ELSE intervalRef' = NoTimer /\ timers' = cleaned

\* the streaming effect arming without regard to the in-flight marker
StreamingEffect_IgnoresMarker(settingsChanged) ==
  LET depsChanged ==
        \/ settingsChanged
        \/ <<isStreaming', isConnected', isProcessing', currentSession', cameraOn'>>
             # <<isStreaming, isConnected, isProcessing, currentSession, cameraOn>>
      cleaned == timers \ {intervalRef}
      t == [delay |-> delaySeconds', session |-> currentSession', cam |-> cameraOn']
  IN IF ~depsChanged
     THEN UNCHANGED <<intervalRef, timers>>
     ELSE IF isStreaming' /\ isConnected'
          THEN intervalRef' = t /\ timers' = cleaned \cup {t}
          ELSE intervalRef' = NoTimer /\ timers' = cleaned

StreamingEffect(settingsChanged) ==
  LET depsChanged ==
        \/ settingsChanged
        \/ <<isStreaming', isConnected', isProcessing', currentSession', cameraOn'>>
             # <<isStreaming, isConnected, isProcessing, currentSession, cameraOn>>
      cleaned == timers \ {intervalRef}
      t == [delay |-> delaySeconds', session |-> currentSession', cam |-> cameraOn']
  IN IF ~depsChanged
     THEN UNCHANGED <<intervalRef, timers>>
     ELSE IF isStreaming' /\ isConnected' /\ ~isProcessing'
          THEN intervalRef' = t /\ timers' = cleaned \cup {t}
          ELSE intervalRef' = NoTimer /\ timers' = cleaned

\* History variables, updated by every action:
\*   lastOp        the operation just performed
\*   stopRun       how many stop() calls were made in a row just now (up to 2)
\*   closeRun      close events since the last successful open
\*   resetSession  the session id held at the latest reset()
Ghost(op) ==
  /\ lastOp' = op
  /\ stopRun' = IF op = "stop" THEN (IF stopRun < 2 THEN stopRun + 1 ELSE 2) ELSE 0
  /\ closeRun' = IF op = "open" THEN 0
                 ELSE IF op \in {"close", "error_close"}
                      THEN (IF closeRun <= maxReconnectAttempts THEN closeRun + 1 ELSE closeRun)
                      ELSE closeRun
  /\ resetSession' = IF op = "reset" THEN currentSession ELSE resetSession

----------------------------------------------------------------------------
Init ==
  /\ currentSession = Null
  /\ frameHistory = <<>>
  /\ temporalContext = Null
  /\ isConnected = FALSE
  /\ isProcessing = FALSE
  /\ isStreaming = FALSE
  /\ error = NoError
  /\ delaySeconds = 2
  /\ cameraOn = FALSE
  /\ wsRef = FALSE
  /\ intervalRef = NoTimer
  /\ timers = {}
  /\ reconnectAttempts = 0
  /\ sockets = <<>>
  /\ reconnTimers = <<>>
  /\ seq = 0
  /\ lastOp = "init"
  /\ stopRun = 0
  /\ sinceStart = <<>>
  /\ cleared = TRUE
  /\ closeRun = 0
  /\ resetSession = Null

----------------------------------------------------------------------------
\* App initialisation effect (initializeApp): health check, then
\* new WebSocketService(...), handler registration and connect()

InitializeApp(healthy) ==
  /\ lastOp = "init"
  /\ IF healthy
     THEN /\ wsRef' = TRUE
          /\ sockets' = connect(sockets, TRUE)
          /\ UNCHANGED error
     ELSE /\ error' = ErrBackend
          /\ UNCHANGED <<wsRef, sockets>>
  /\ Ghost(IF healthy THEN "initializeApp" ELSE "initFailed")
  /\ UNCHANGED <<currentSession, frameHistory, temporalContext, isConnected,
                 isProcessing, isStreaming, delaySeconds, cameraOn,
                 intervalRef, timers, reconnectAttempts, reconnTimers,
                 seq, sinceStart, cleared>>

----------------------------------------------------------------------------
\* Command handlers of App

\* handleStartAnalysis clearing the frame history before its connection check
handleStartAnalysis_ClearsFirst ==
  IF ~wsRef \/ ~isConnected
  THEN /\ error' = ErrNotConnected
       /\ frameHistory' = <<>>
       /\ Ghost("start_rejected")
       /\ UNCHANGED <<currentSession, temporalContext,
                      isConnected, isProcessing, isStreaming, delaySeconds,
                      cameraOn, wsRef, intervalRef, timers, reconnectAttempts,
                      sockets, reconnTimers, seq, sinceStart, cleared>>
  ELSE /\ currentSession = Null =>
             \A i \in 1..Len(sockets) : sockets[i].starts < MaxStartPending
       /\ sockets' = IF currentSession = Null
                     THEN send(sockets, [type |-> "start_session",
                                         session_id |-> Null])
                     ELSE sockets
       /\ isStreaming' = TRUE
       /\ frameHistory' = <<>>
       /\ sinceStart' = <<>>
       /\ cleared' = FALSE
       /\ Ghost("start")
       /\ UNCHANGED <<currentSession, temporalContext, isConnected,
                      isProcessing, error, delaySeconds, cameraOn, wsRef,
                      reconnectAttempts, reconnTimers, seq>>
       /\ StreamingEffect(FALSE)

handleStartAnalysis ==
  IF ~wsRef \/ ~isConnected
  THEN /\ error' = ErrNotConnected
       /\ Ghost("start_rejected")
       /\ UNCHANGED <<currentSession, frameHistory, temporalContext,
                      isConnected, isProcessing, isStreaming, delaySeconds,
                      cameraOn, wsRef, intervalRef, timers, reconnectAttempts,
                      sockets, reconnTimers, seq, sinceStart, cleared>>
  ELSE /\ currentSession = Null =>
             \A i \in 1..Len(sockets) : sockets[i].starts < MaxStartPending
       /\ sockets' = IF currentSession = Null
                     THEN send(sockets, [type |-> "start_session",
                                         session_id |-> Null])
                     ELSE sockets
       /\ isStreaming' = TRUE
       /\ frameHistory' = <<>>
       /\ sinceStart' = <<>>
       /\ cleared' = FALSE
       /\ Ghost("start")
       /\ UNCHANGED <<currentSession, temporalContext, isConnected,
                      isProcessing, error, delaySeconds, cameraOn, wsRef,
                      reconnectAttempts, reconnTimers, seq>>
       /\ StreamingEffect(FALSE)

\* handleStopAnalysis toggling the streaming flag instead of clearing it
handleStopAnalysis_Toggle ==
  /\ isStreaming' = ~isStreaming
  /\ isProcessing' = FALSE
  /\ Ghost("stop")
  /\ UNCHANGED <<currentSession, frameHistory, temporalContext, isConnected,
                 error, delaySeconds, cameraOn, wsRef, reconnectAttempts,
                 sockets, reconnTimers, seq, sinceStart, cleared>>
  /\ StreamingEffect(FALSE)

handleStopAnalysis ==
  /\ isStreaming' = FALSE
  /\ isProcessing' = FALSE
  /\ Ghost("stop")
  /\ UNCHANGED <<currentSession, frameHistory, temporalContext, isConnected,
                 error, delaySeconds, cameraOn, wsRef, reconnectAttempts,
                 sockets, reconnTimers, seq, sinceStart, cleared>>
  /\ StreamingEffect(FALSE)

\* handleClearHistory also ending the session: setCurrentSession(null)
handleClearHistory_EndsSession ==
  /\ frameHistory' = <<>>
  /\ temporalContext' = Null
  /\ currentSession' = Null
  /\ cleared' = TRUE
  /\ Ghost("reset")
  /\ UNCHANGED <<isConnected, isProcessing, isStreaming,
                 error, delaySeconds, cameraOn, wsRef, reconnectAttempts,
                 sockets, reconnTimers, seq, sinceStart>>
  /\ StreamingEffect(FALSE)

\* handleClearHistory also disarming the pacer: setStreamingStatus(false)
handleClearHistory_Disarms ==
  /\ frameHistory' = <<>>
  /\ temporalContext' = Null
  /\ isStreaming' = FALSE
  /\ cleared' = TRUE
  /\ Ghost("reset")
  /\ UNCHANGED <<currentSession, isConnected, isProcessing,
                 error, delaySeconds, cameraOn, wsRef, reconnectAttempts,
                 sockets, reconnTimers, seq, sinceStart>>
  /\ StreamingEffect(FALSE)

handleClearHistory ==
  /\ frameHistory' = <<>>
  /\ temporalContext' = Null
  /\ cleared' = TRUE
  /\ Ghost("reset")
  /\ UNCHANGED <<currentSession, isConnected, isProcessing, isStreaming,
                 error, delaySeconds, cameraOn, wsRef, reconnectAttempts,
                 sockets, reconnTimers, seq, sinceStart>>
  /\ StreamingEffect(FALSE)

\* SettingsPanel: updateSettings({ ..., delaySeconds: d }); the store replaces
\* the settings object
updateSettings(d) ==
  /\ delaySeconds' = d
  /\ Ghost("settings")
  /\ UNCHANGED <<currentSession, frameHistory, temporalContext, isConnected,
                 isProcessing, isStreaming, error, cameraOn, wsRef,
                 reconnectAttempts, sockets, reconnTimers, seq,
                 sinceStart, cleared>>
  /\ StreamingEffect(TRUE)

\* error banner dismiss button: setError(null)
dismissError ==
  /\ error # NoError
  /\ error' = NoError
  /\ Ghost("dismiss")
  /\ UNCHANGED <<currentSession, frameHistory, temporalContext, isConnected,
                 isProcessing, isStreaming, delaySeconds, cameraOn, wsRef,
                 intervalRef, timers, reconnectAttempts, sockets,
                 reconnTimers, seq, sinceStart, cleared>>

\* useCamera: startCamera succeeding (on = TRUE), stopCamera or a failed
\* startCamera (on = FALSE) set the hook's isStreaming flag, a dependency of
\* captureFrame
setCamera(on) ==
  /\ cameraOn # on
  /\ cameraOn' = on
  /\ Ghost("camera")
  /\ UNCHANGED <<currentSession, frameHistory, temporalContext, isConnected,
                 isProcessing, isStreaming, error, delaySeconds, wsRef,
                 reconnectAttempts, sockets, reconnTimers, seq,
                 sinceStart, cleared>>
  /\ StreamingEffect(FALSE)

----------------------------------------------------------------------------
\* useCamera.captureFrame as closed over by the interval callback: null when
\* the hook is not streaming, or when the canvas yields nothing
captureFrame(cam, canvasOk) == cam /\ canvasOk

\* The setInterval callback created by the streaming effect.  The callback
\* closes over the render in which the effect ran: isProcessing is false in
\* that render (the effect only arms then), session and camera flag are the
\* values recorded in the timer.
Tick(t, canvasOk) ==
  /\ t \in timers
  /\ wsRef
  /\ IF captureFrame(t.cam, canvasOk)
     THEN /\ isProcessing' = TRUE
          /\ sockets' = send(sockets, [type |-> "vlm_query", id |-> seq + 1,
                                       session_id |-> t.session])
          /\ seq' = IF Transmits(sockets) THEN seq + 1 ELSE seq
          /\ Ghost(IF Transmits(sockets) THEN "tick_sent" ELSE "tick_dropped")
     ELSE /\ UNCHANGED <<isProcessing, sockets, seq>>
          /\ Ghost("tick_noframe")
  /\ UNCHANGED <<currentSession, frameHistory, temporalContext, isConnected,
                 isStreaming, error, delaySeconds, cameraOn, wsRef,
                 reconnectAttempts, reconnTimers, sinceStart, cleared>>
  /\ StreamingEffect(FALSE)

----------------------------------------------------------------------------
\* Inbound messages: ws.onmessage -> handleMessage -> registered handler.
\* The service answers any request still pending on an open socket.

\* the vlm_response handler without its setTemporalContext call
vlmResponseHandler_NoContext(success, frame_id, temporal_context, err) ==
  /\ IF success
     THEN /\ frameHistory' = addFrame(frameHistory,
                 [frame_id |-> frame_id, temporal_context |-> temporal_context])
          /\ sinceStart' = Append(sinceStart, frame_id)
          /\ UNCHANGED <<error, temporalContext>>
     ELSE /\ error' = IF err # NoError THEN err ELSE ErrVlmFailed
          /\ UNCHANGED <<frameHistory, temporalContext, sinceStart>>
  /\ isProcessing' = FALSE

\* the vlm_response handler leaving the in-flight marker set on a failure
vlmResponseHandler_FailKeepsMarker(success, frame_id, temporal_context, err) ==
  IF success
  THEN /\ frameHistory' = addFrame(frameHistory,
              [frame_id |-> frame_id, temporal_context |-> temporal_context])
       /\ temporalContext' = temporal_context
       /\ sinceStart' = Append(sinceStart, frame_id)
       /\ UNCHANGED error
       /\ isProcessing' = FALSE
  ELSE /\ error' = IF err # NoError THEN err ELSE ErrVlmFailed
       /\ UNCHANGED <<frameHistory, temporalContext, sinceStart, isProcessing>>

\* the vlm_response handler discarding a successful response that arrives
\* while streaming is disabled
vlmResponseHandler_DropsWhenStopped(success, frame_id, temporal_context, err) ==
  /\ IF success
     THEN IF isStreaming
          THEN /\ frameHistory' = addFrame(frameHistory,
                      [frame_id |-> frame_id, temporal_context |-> temporal_context])
               /\ temporalContext' = temporal_context
               /\ sinceStart' = Append(sinceStart, frame_id)
               /\ UNCHANGED error
          ELSE UNCHANGED <<frameHistory, temporalContext, sinceStart, error>>
     ELSE /\ error' = IF err # NoError THEN err ELSE ErrVlmFailed
          /\ UNCHANGED <<frameHistory, temporalContext, sinceStart>>
  /\ isProcessing' = FALSE

vlmResponseHandler(success, frame_id, temporal_context, err) ==
  /\ IF success
     THEN /\ frameHistory' = addFrame(frameHistory,
                 [frame_id |-> frame_id, temporal_context |-> temporal_context])
          /\ temporalContext' = temporal_context
          /\ sinceStart' = Append(sinceStart, frame_id)
          /\ UNCHANGED error
     ELSE /\ error' = IF err # NoError THEN err ELSE ErrVlmFailed
          /\ UNCHANGED <<frameHistory, temporalContext, sinceStart>>
  /\ isProcessing' = FALSE

OnVlmResponse(i, q, success, err) ==
  /\ i \in 1..Len(sockets)
  /\ sockets[i].st = "OPEN"
  /\ q \in sockets[i].queries
  /\ sockets' = [sockets EXCEPT ![i].queries = @ \ {q}]
  /\ vlmResponseHandler(success, q.id, TemporalContextOf(q.id), err)
  /\ Ghost(IF success THEN "vlm_ok" ELSE "vlm_fail")
  /\ UNCHANGED <<currentSession, isConnected, isStreaming, delaySeconds,
                 cameraOn, wsRef, reconnectAttempts, reconnTimers, seq,
                 cleared>>
  /\ StreamingEffect(FALSE)

OnSessionStarted(i, sid) ==
  /\ i \in 1..Len(sockets)
  /\ sockets[i].st = "OPEN"
  /\ sockets[i].starts > 0
  /\ sockets' = [sockets EXCEPT ![i].starts = @ - 1]
  /\ currentSession' = sid
  /\ Ghost("session_started")
  /\ UNCHANGED <<frameHistory, temporalContext, isConnected, isProcessing,
                 isStreaming, error, delaySeconds, cameraOn, wsRef,
                 reconnectAttempts, reconnTimers, seq, sinceStart, cleared>>
  /\ StreamingEffect(FALSE)

OnSessionError(i) ==
  /\ i \in 1..Len(sockets)
  /\ sockets[i].st = "OPEN"
  /\ sockets[i].starts > 0
  /\ sockets' = [sockets EXCEPT ![i].starts = @ - 1]
  /\ error' = ErrRemote
  /\ Ghost("session_error")
  /\ UNCHANGED <<currentSession, frameHistory, temporalContext, isConnected,
                 isProcessing, isStreaming, delaySeconds, cameraOn, wsRef,
                 intervalRef, timers, reconnectAttempts, reconnTimers, seq,
                 sinceStart, cleared>>

----------------------------------------------------------------------------
\* Inbound payloads that reach no handler

\* the message types App registers a handler for with wsRef.current.onMessage
RegisteredTypes ==
  {"session_started", "vlm_response", "session_stats", "session_error"}

\* payloads the service may deliver: data that is not JSON, and JSON messages
\* of the types of the wire protocol and of a type unknown to it
Payloads ==
  {[parses |-> FALSE, type |-> "none"]} \cup
  {[parses |-> TRUE, type |-> ty] :
      ty \in RegisteredTypes \cup {"summary_response", "summary_error", "pong"}}

\* WebSocketService.handleMessage: does a handler run for this type
handleMessage(type) == type \in RegisteredTypes

\* ws.onmessage propagating the JSON.parse exception to the error callback
OnUndispatched_ReportsError(i, payload) ==
  /\ i \in 1..Len(sockets)
  /\ sockets[i].st = "OPEN"
  /\ ~payload.parses \/ ~handleMessage(payload.type)
  /\ error' = IF payload.parses THEN error ELSE ErrWsConnection
  /\ Ghost(IF payload.parses THEN "msg_unhandled" ELSE "msg_unparsable")
  /\ UNCHANGED <<currentSession, frameHistory, temporalContext, isConnected,
                 isProcessing, isStreaming, delaySeconds, cameraOn,
                 wsRef, intervalRef, timers, reconnectAttempts, sockets,
                 reconnTimers, seq, sinceStart, cleared>>

\* ws.onmessage for a payload that JSON.parse rejects (caught and logged) or
\* whose type has no registered handler (handleMessage logs it)
OnUndispatched(i, payload) ==
  /\ i \in 1..Len(sockets)
  /\ sockets[i].st = "OPEN"
  /\ ~payload.parses \/ ~handleMessage(payload.type)
  /\ Ghost(IF payload.parses THEN "msg_unhandled" ELSE "msg_unparsable")
  /\ UNCHANGED <<currentSession, frameHistory, temporalContext, isConnected,
                 isProcessing, isStreaming, error, delaySeconds, cameraOn,
                 wsRef, intervalRef, timers, reconnectAttempts, sockets,
                 reconnTimers, seq, sinceStart, cleared>>

----------------------------------------------------------------------------
\* Socket events

\* attemptReconnect comparing with <= : one attempt too many
attemptReconnect_OffByOne(attempts, pending, err) ==
  IF attempts <= maxReconnectAttempts
  THEN [attempts |-> attempts + 1,
        pending  |-> Append(pending, reconnectDelay * (attempts + 1)),
        error    |-> err]
  ELSE [attempts |-> attempts, pending |-> pending, error |-> ErrMaxReconnect]

\* attemptReconnect with a constant delay: setTimeout(..., this.reconnectDelay)
attemptReconnect_FlatDelay(attempts, pending, err) ==
  IF attempts < maxReconnectAttempts
  THEN [attempts |-> attempts + 1,
        pending  |-> Append(pending, reconnectDelay),
        error    |-> err]
  ELSE [attempts |-> attempts, pending |-> pending, error |-> ErrMaxReconnect]

\* WebSocketService.attemptReconnect: the new attempt count, the pending
\* setTimeout delays and the error field after the call
attemptReconnect(attempts, pending, err) ==
  IF attempts < maxReconnectAttempts
  THEN [attempts |-> attempts + 1,
        pending  |-> Append(pending, reconnectDelay * (attempts + 1)),
        error    |-> err]
  ELSE [attempts |-> attempts, pending |-> pending, error |-> ErrMaxReconnect]

\* ws.onopen without this.reconnectAttempts = 0
OnOpen_KeepsAttempts(i) ==
  /\ i \in 1..Len(sockets)
  /\ sockets[i].st = "CONNECTING"
  /\ sockets' = [sockets EXCEPT ![i].st = "OPEN", ![i].awaited = FALSE]
  /\ isConnected' = TRUE
  /\ Ghost("open")
  /\ UNCHANGED <<currentSession, frameHistory, temporalContext, isProcessing,
                 isStreaming, error, delaySeconds, cameraOn, wsRef,
                 reconnectAttempts, reconnTimers, seq, sinceStart, cleared>>
  /\ StreamingEffect(FALSE)

\* ws.onopen
OnOpen(i) ==
  /\ i \in 1..Len(sockets)
  /\ sockets[i].st = "CONNECTING"
  /\ sockets' = [sockets EXCEPT ![i].st = "OPEN", ![i].awaited = FALSE]
  /\ reconnectAttempts' = 0
  /\ isConnected' = TRUE
  /\ Ghost("open")
  /\ UNCHANGED <<currentSession, frameHistory, temporalContext, isProcessing,
                 isStreaming, error, delaySeconds, cameraOn, wsRef,
                 reconnTimers, seq, sinceStart, cleared>>
  /\ StreamingEffect(FALSE)

\* the closing handshake has started: readyState is CLOSING, the close event
\* has not been dispatched yet
StartClosing(i) ==
  /\ i \in 1..Len(sockets)
  /\ sockets[i].st = "OPEN"
  /\ sockets' = [sockets EXCEPT ![i].st = "CLOSING"]
  /\ Ghost("closing")
  /\ UNCHANGED <<currentSession, frameHistory, temporalContext, isConnected,
                 isProcessing, isStreaming, error, delaySeconds, cameraOn,
                 wsRef, intervalRef, timers, reconnectAttempts, reconnTimers,
                 seq, sinceStart, cleared>>

\* the socket closes: with failed = TRUE the browser fires error and then
\* close (ws.onerror, ws.onclose), otherwise close alone (ws.onclose).
\* ws.onerror sets the error and rejects the connect() promise; when
\* initializeApp still awaits it, its catch block sets the error next.
OnClose(i, failed) ==
  /\ i \in 1..Len(sockets)
  /\ sockets[i].st = "CONNECTING" => failed
  /\ sockets' = RemoveAt(sockets, i)
  /\ isConnected' = FALSE
  /\ LET r == attemptReconnect(reconnectAttempts, reconnTimers,
                               IF ~failed THEN error
                               ELSE IF sockets[i].awaited THEN ErrInitialize
                               ELSE ErrWsConnection)
     IN /\ reconnectAttempts' = r.attempts
        /\ reconnTimers' = r.pending
        /\ error' = r.error
  /\ Ghost(IF failed THEN "error_close" ELSE "close")
  /\ UNCHANGED <<currentSession, frameHistory, temporalContext, isProcessing,
                 isStreaming, delaySeconds, cameraOn, wsRef, seq,
                 sinceStart, cleared>>
  /\ StreamingEffect(FALSE)

\* the setTimeout callback of attemptReconnect: this.connect()
ReconnectTimer(j) ==
  /\ j \in 1..Len(reconnTimers)
  /\ reconnTimers' = RemoveAt(reconnTimers, j)
  /\ sockets' = connect(sockets, FALSE)
  /\ Ghost("reconnect")
  /\ UNCHANGED <<currentSession, frameHistory, temporalContext, isConnected,
                 isProcessing, isStreaming, error, delaySeconds, cameraOn,
                 wsRef, intervalRef, timers, reconnectAttempts, seq,
                 sinceStart, cleared>>

----------------------------------------------------------------------------
\* The App as a whole.  Settings changes here leave the delay as it is (any
\* updateSettings call replaces the settings object and so re-runs the streaming
\* effect); the camera, once started, keeps running, and a capture that yields
\* nothing is the canvasOk = FALSE outcome of a tick.
Next ==
  \/ \E healthy \in BOOLEAN : InitializeApp(healthy)
  \/ handleStartAnalysis
  \/ handleStopAnalysis
  \/ handleClearHistory
  \/ updateSettings(delaySeconds)
  \/ dismissError
  \/ setCamera(TRUE)
  \/ \E t \in timers, canvasOk \in BOOLEAN :
        seq < MaxQueries /\ Tick(t, canvasOk)
  \/ \E i \in 1..Len(sockets), q \in Outstanding(sockets),
        success \in BOOLEAN, err \in {NoError, ErrRemote} :
        OnVlmResponse(i, q, success, err)
  \/ \E i \in 1..Len(sockets), sid \in SessionIds : OnSessionStarted(i, sid)
  \/ \E i \in 1..Len(sockets) : OnSessionError(i)
  \/ \E i \in 1..Len(sockets) : OnOpen(i)
  \/ \E i \in 1..Len(sockets) : StartClosing(i)
  \/ \E i \in 1..Len(sockets), failed \in BOOLEAN :
        OnClose(i, failed)
  \/ \E j \in 1..Len(reconnTimers) : ReconnectTimer(j)

Spec == Init /\ [][Next]_vars

----------------------------------------------------------------------------
\* The message handlers and commands on their own: the service may send a
\* vlm_response at any time over an open socket; frames are numbered in the
\* order they arrive, all successful.  No pacer tick is taken, so the number of responses is
\* bounded by MaxStoreFrames alone and the history can fill up.

InboundVlmResponse ==
  /\ \E i \in 1..Len(sockets) : sockets[i].st = "OPEN"
  /\ seq' = seq + 1
  /\ vlmResponseHandler(TRUE, seq + 1, TemporalContextOf(seq + 1), NoError)
  /\ Ghost("vlm_ok")
  /\ UNCHANGED <<currentSession, isConnected, isStreaming, delaySeconds,
                 cameraOn, wsRef, reconnectAttempts, sockets, reconnTimers,
                 cleared>>
  /\ StreamingEffect(FALSE)

NextHandlers ==
  \/ InitializeApp(TRUE)
  \/ \E i \in 1..Len(sockets) : OnOpen(i)
  \/ handleStartAnalysis
  \/ handleClearHistory
  \/ seq < MaxStoreFrames /\ InboundVlmResponse

SpecHandlers == Init /\ [][NextHandlers]_vars

TypeOK ==
  /\ currentSession \in {Null} \cup SessionIds
  /\ isConnected \in BOOLEAN /\ isProcessing \in BOOLEAN /\ isStreaming \in BOOLEAN
  /\ Len(frameHistory) <= HistoryCap
  /\ reconnectAttempts \in 0..maxReconnectAttempts
  /\ seq \in 0..MaxStoreFrames

----------------------------------------------------------------------------
\* The transport on its own.  connect() is a public method of
\* WebSocketService: besides initializeApp and the reconnect timer, any holder
\* of the service may call it, also while this.ws is still live.  The number of
\* sockets and reconnect timers that exist at once is bounded by MaxSockets.

\* connect() called on the service App holds; the caller handles a rejection
CallConnect ==
  /\ wsRef
  /\ sockets' = connect(sockets, FALSE)
  /\ Ghost("connect")
  /\ UNCHANGED <<currentSession, frameHistory, temporalContext, isConnected,
                 isProcessing, isStreaming, error, delaySeconds, cameraOn,
                 wsRef, intervalRef, timers, reconnectAttempts, reconnTimers,
                 seq, sinceStart, cleared>>

NextTransport ==
  \/ InitializeApp(TRUE)
  \/ Len(sockets) + Len(reconnTimers) < MaxSockets /\ CallConnect
  \/ \E i \in 1..Len(sockets) : OnOpen(i)
  \/ \E i \in 1..Len(sockets) : StartClosing(i)
  \/ \E i \in 1..Len(sockets), failed \in BOOLEAN : OnClose(i, failed)
  \/ \E j \in 1..Len(reconnTimers) : ReconnectTimer(j)

SpecTransport == Init /\ [][NextTransport]_vars

----------------------------------------------------------------------------
\* The pacer with the delay setting being changed: the user starts the camera,
\* starts and stops the analysis and moves the delay slider; ticks fire and
\* the service answers.  The connection stays up.

NextDelay ==
  \/ InitializeApp(TRUE)
  \/ \E i \in 1..Len(sockets) : OnOpen(i)
  \/ setCamera(TRUE)
  \/ handleStartAnalysis
  \/ handleStopAnalysis
  \/ \E d \in DelayChoices : updateSettings(d)
  \/ \E t \in timers, canvasOk \in BOOLEAN :
        seq < MaxQueries /\ Tick(t, canvasOk)
  \/ \E i \in 1..Len(sockets), q \in Outstanding(sockets), success \in BOOLEAN :
        OnVlmResponse(i, q, success, NoError)

SpecDelay == Init /\ [][NextDelay]_vars

----------------------------------------------------------------------------
\* The inbound side: an analysis is running over a connection that stays up,
\* and the service sends, besides its answers, payloads that reach no handler.

NextInbound ==
  \/ InitializeApp(TRUE)
  \/ \E i \in 1..Len(sockets) : OnOpen(i)
  \/ setCamera(TRUE)
  \/ handleStartAnalysis
  \/ \E t \in timers, canvasOk \in BOOLEAN :
        seq < MaxQueries /\ Tick(t, canvasOk)
  \/ \E i \in 1..Len(sockets), q \in Outstanding(sockets),
        success \in BOOLEAN, err \in {NoError, ErrRemote} :
        OnVlmResponse(i, q, success, err)
  \/ \E i \in 1..Len(sockets), sid \in SessionIds : OnSessionStarted(i, sid)
  \/ \E i \in 1..Len(sockets), payload \in Payloads : OnUndispatched(i, payload)

SpecInbound == Init /\ [][NextInbound]_vars

----------------------------------------------------------------------------
\* The transport with explicit disconnects.  disconnect() is called by the
\* cleanup of App's initialisation effect and may be called by any holder of
\* the service; no analysis is started here, so no interval timer exists.
\* connect() is called again only once no socket and no reconnect timer is
\* left, so at most one socket exists; the user dismisses the error banner.

CallDisconnect ==
  /\ wsRef
  /\ sockets' = disconnect(sockets)
  /\ Ghost("disconnect")
  /\ UNCHANGED <<currentSession, frameHistory, temporalContext, isConnected,
                 isProcessing, isStreaming, error, delaySeconds, cameraOn,
                 wsRef, intervalRef, timers, reconnectAttempts, reconnTimers,
                 seq, sinceStart, cleared>>

NextTeardown ==
  \/ InitializeApp(TRUE)
  \/ CallDisconnect
  \/ sockets = <<>> /\ reconnTimers = <<>> /\ CallConnect
  \/ dismissError
  \/ \E i \in 1..Len(sockets) : OnOpen(i)
  \/ \E i \in 1..Len(sockets) : StartClosing(i)
  \/ \E i \in 1..Len(sockets), failed \in BOOLEAN : OnClose(i, failed)
  \/ \E j \in 1..Len(reconnTimers) : ReconnectTimer(j)

SpecTeardown == Init /\ [][NextTeardown]_vars

----------------------------------------------------------------------------
\* The pacer under fair scheduling: an armed interval timer keeps firing and
\* its capture succeeds, the service answers every query that is still pending
\* on an open socket, a connecting socket opens, a closing handshake
\* completes, and a scheduled reconnect timer fires.  The user starts the camera and the analysis and then leaves
\* the application alone.

TickSends == \E t \in timers : seq < MaxQueries /\ Tick(t, TRUE)
Answer ==
  \E i \in 1..Len(sockets), q \in Outstanding(sockets), success \in BOOLEAN :
      OnVlmResponse(i, q, success, NoError)
Opens == \E i \in 1..Len(sockets) : OnOpen(i)
ClosingCompletes ==
  \E i \in 1..Len(sockets) : sockets[i].st = "CLOSING" /\ OnClose(i, FALSE)
Reconnects == \E j \in 1..Len(reconnTimers) : ReconnectTimer(j)

NextPacer ==
  \/ InitializeApp(TRUE)
  \/ setCamera(TRUE)
  \/ handleStartAnalysis
  \/ TickSends
  \/ Answer
  \/ \E i \in 1..Len(sockets), sid \in SessionIds : OnSessionStarted(i, sid)
  \/ \E i \in 1..Len(sockets) : OnSessionError(i)
  \/ Opens
  \/ \E i \in 1..Len(sockets) : StartClosing(i)
  \/ \E i \in 1..Len(sockets), failed \in BOOLEAN : OnClose(i, failed)
  \/ Reconnects

FairSpec ==
  /\ Init
  /\ [][NextPacer]_vars
  /\ WF_vars(TickSends)
  /\ WF_vars(Answer)
  /\ WF_vars(Opens)
  /\ WF_vars(ClosingCompletes)
  /\ WF_vars(Reconnects)

----------------------------------------------------------------------------
\* Properties

NonGhostVars == <<currentSession, frameHistory, temporalContext, isConnected,
                  isProcessing, isStreaming, error, delaySeconds, cameraOn,
                  wsRef, intervalRef, timers, reconnectAttempts, sockets,
                  reconnTimers>>

\* the vlm_query transmitted by the step just taken
LastSent(socks, n) == CHOOSE q \in Outstanding(socks) : q.id = n

\* C1: at every instant at most one vlm_query has been transmitted and not yet
\* answered.
C1_AtMostOneOutstanding == Cardinality(Outstanding(sockets)) <= 1

\* C2: a set in-flight marker is cleared only by a vlm_response, an error
\* message or a disconnect, and while it is set no tick sends a vlm_query.
C2_MarkerClearedOnlyByReply ==
  [][/\ (isProcessing /\ ~isProcessing') =>
          lastOp' \in {"vlm_ok", "vlm_fail", "session_error", "close", "error_close"}
     /\ isProcessing => seq' = seq]_vars

\* C3: whenever streaming is enabled, the channel is connected, the camera
\* delivers frames and the query budget of the model is not used up, a
\* vlm_query is eventually sent, unless one of the three conditions ends first.
PacerReady == isStreaming /\ isConnected /\ cameraOn
C3_PacerNeverStalls ==
  (PacerReady /\ seq < MaxQueries) ~> (lastOp = "tick_sent" \/ ~PacerReady)

\* C4: the frame history never holds more than 50 records; an append to a full
\* history drops exactly the oldest record, any other append drops nothing, and
\* the records kept stay in append order.
C4_HistoryCapFifo ==
  [][/\ Len(frameHistory') <= HistoryCap
     /\ lastOp' = "vlm_ok" =>
          /\ frameHistory'[Len(frameHistory')].frame_id = seq'
          /\ IF Len(frameHistory) = HistoryCap
             THEN /\ Len(frameHistory') = HistoryCap
                  /\ \A i \in 1..(HistoryCap - 1) : frameHistory'[i] = frameHistory[i + 1]
             ELSE /\ Len(frameHistory') = Len(frameHistory) + 1
                  /\ \A i \in 1..Len(frameHistory) : frameHistory'[i] = frameHistory[i]]_vars

C4_Witness ==
  /\ lastOp = "vlm_ok"
  /\ Len(frameHistory) = HistoryCap
  /\ frameHistory[1].frame_id = 2
  /\ seq = HistoryCap + 1

\* C5: after N <= 5 closes in a row without a successful open, the attempt
\* count is N and exactly one reconnect is under way (scheduled, or its socket
\* connecting), scheduled right after the close; after the 6th close nothing is
\* scheduled, no socket exists and the failure has been reported.
C5_ReconnectBudget ==
  /\ closeRun \in 1..maxReconnectAttempts =>
        /\ reconnectAttempts = closeRun
        /\ Len(reconnTimers) + Len(sockets) = 1
        /\ lastOp \in {"close", "error_close"} => Len(reconnTimers) = 1
  /\ closeRun > maxReconnectAttempts =>
        /\ reconnTimers = <<>>
        /\ sockets = <<>>
        /\ lastOp \in {"close", "error_close"} => error = ErrMaxReconnect

C5_Witness ==
  /\ closeRun = maxReconnectAttempts + 1
  /\ lastOp = "error_close"
  /\ error = ErrMaxReconnect

\* C6: the records of the frame history are in the order their queries were
\* sent (a record carries the send number of the query it answers).
C6_HistoryInSendOrder ==
  \A i, j \in 1..Len(frameHistory) :
      i < j => frameHistory[i].frame_id < frameHistory[j].frame_id

\* C7: after start() and successful responses for frames 1, 2, 3 the history is
\* exactly [1, 2, 3] and the temporal context is the payload of the third
\* response; in general, with no reset() since the start(), the history holds
\* the responses received since the start() and the context is the payload of
\* the latest.
C7_StartThenResponses ==
  /\ (~cleared /\ sinceStart = <<1, 2, 3>>) =>
        /\ FrameIds(frameHistory) = <<1, 2, 3>>
        /\ temporalContext = TemporalContextOf(3)
  /\ ~cleared =>
        /\ FrameIds(frameHistory) = SliceLast(sinceStart, HistoryCap)
        /\ sinceStart # <<>> =>
              temporalContext = TemporalContextOf(sinceStart[Len(sinceStart)])

C7_Witness ==
  /\ ~cleared
  /\ sinceStart = <<1, 2, 3>>
  /\ lastOp = "vlm_ok"

\* C8: a stop() that directly follows a stop() changes no state field.
C8_StopIdempotent == [][stopRun' = 2 => UNCHANGED NonGhostVars]_vars

C8_Witness ==
  /\ stopRun = 2
  /\ lastOp = "stop"
  /\ Outstanding(sockets) # {}
  /\ currentSession # Null

\* C9 as stated: reset() empties the history, nulls the temporal context and
\* keeps the session id, and every vlm_query sent after a reset() made while a
\* session id was held carries that session id.
C9_Original ==
  [][/\ lastOp' = "reset" =>
          /\ frameHistory' = <<>>
          /\ temporalContext' = Null
          /\ currentSession' = currentSession
     /\ (lastOp' = "tick_sent" /\ resetSession # Null) =>
          LastSent(sockets', seq').session_id = resetSession]_vars

\* C9 amended: reset() empties the history, nulls the temporal context and
\* keeps the session id; the session id changes only when a session_started
\* message is handled, and every vlm_query carries the session id held when it
\* is sent.
C9_ResetKeepsSession ==
  [][/\ lastOp' = "reset" =>
          /\ frameHistory' = <<>>
          /\ temporalContext' = Null
          /\ currentSession' = currentSession
     /\ lastOp' # "session_started" => currentSession' = currentSession
     /\ lastOp' = "tick_sent" =>
          LastSent(sockets', seq').session_id = currentSession]_vars

C9_Witness ==
  /\ lastOp = "tick_sent"
  /\ resetSession # Null
  /\ frameHistory = <<>>
  /\ \E q \in Outstanding(sockets) : q.id = seq /\ q.session_id = resetSession

\* C10 as stated: after reset() no interval timer is active, and reset()
\* leaves the connection state untouched.
C10_Original ==
  [][lastOp' = "reset" =>
        /\ timers' = {} /\ intervalRef' = NoTimer
        /\ UNCHANGED <<isConnected, reconnectAttempts, sockets, reconnTimers>>]_vars

\* C10 amended: reset() leaves the pacer as it is (streaming flag, in-flight
\* marker and interval timer unchanged) and leaves the connection state
\* untouched.
C10_ResetKeepsPacer ==
  [][lastOp' = "reset" =>
        UNCHANGED <<isStreaming, isProcessing, intervalRef, timers,
                    isConnected, reconnectAttempts, sockets, reconnTimers>>]_vars

C10_Witness == lastOp = "reset" /\ timers # {} /\ isStreaming

\* C11: a vlm_response with success = false sets the error message (the error
\* text of the response, or 'VLM query failed' when it carries none), clears
\* the in-flight marker and leaves the frame history and the temporal context
\* unchanged.
C11_FailureResponse ==
  [][lastOp' = "vlm_fail" =>
        /\ error' \in {ErrRemote, ErrVlmFailed}
        /\ error' # NoError
        /\ ~isProcessing'
        /\ UNCHANGED <<frameHistory, temporalContext>>]_vars

C11_Witness ==
  /\ lastOp = "vlm_fail"
  /\ error = ErrVlmFailed
  /\ ~isProcessing
  /\ frameHistory # <<>>
  /\ temporalContext # Null

\* C12: a session_error message handled while a query is in flight sets the
\* error message and clears the in-flight marker.
C12_SessionErrorClearsMarker ==
  [][(lastOp' = "session_error" /\ isProcessing) =>
        /\ error' = ErrRemote
        /\ ~isProcessing']_vars

\* C13: right after a successful vlm_response is handled the error field is
\* null.
C13_SuccessClearsError ==
  [][lastOp' = "vlm_ok" => error' = NoError]_vars

\* C14: at most one socket that is open or connecting has handlers attached
\* (every socket the service created and that has not closed keeps its four
\* handlers).
LiveSockets(socks) ==
  {i \in 1..Len(socks) : socks[i].st \in {"CONNECTING", "OPEN"}}
C14_OneLiveSocket == Cardinality(LiveSockets(sockets)) <= 1

\* start_session messages transmitted and not yet answered
RECURSIVE PendingStarts(_)
PendingStarts(socks) ==
  IF socks = <<>> THEN 0 ELSE Head(socks).starts + PendingStarts(Tail(socks))

\* C15: a send() made while this.ws is not open changes nothing in the
\* transport (nothing transmitted, nothing kept); a send() made while it is
\* open puts exactly that one message on the wire; and no other step puts a
\* message on the wire, so a dropped message is never delivered later, a
\* reconnect included.
C15_SendOpenOrDrop ==
  [][/\ (lastOp' \in {"tick_sent", "tick_dropped"} /\ ~Transmits(sockets)) =>
          /\ lastOp' = "tick_dropped"
          /\ UNCHANGED wsVars
     /\ (lastOp' = "start" /\ ~Transmits(sockets)) => UNCHANGED wsVars
     /\ (lastOp' \in {"tick_sent", "tick_dropped"} /\ Transmits(sockets)) =>
          /\ lastOp' = "tick_sent"
          /\ \E q \in Outstanding(sockets') :
                /\ q.id = seq' /\ q.type = "vlm_query"
                /\ q \notin Outstanding(sockets)
                /\ Outstanding(sockets') = Outstanding(sockets) \cup {q}
          /\ PendingStarts(sockets') = PendingStarts(sockets)
     /\ (lastOp' = "start" /\ Transmits(sockets)) =>
          /\ PendingStarts(sockets') =
                PendingStarts(sockets) + (IF currentSession = Null THEN 1 ELSE 0)
          /\ Outstanding(sockets') = Outstanding(sockets)
     /\ lastOp' # "tick_sent" => Outstanding(sockets') \subseteq Outstanding(sockets)
     /\ lastOp' # "start" => PendingStarts(sockets') <= PendingStarts(sockets)]_vars

\* a tick's send was dropped (the marker is set, nothing was ever
\* transmitted), the transport has reconnected since, and nothing is pending
C15_Witness ==
  /\ lastOp = "open"
  /\ isProcessing
  /\ seq = 0
  /\ Transmits(sockets)
  /\ Outstanding(sockets) = {}

\* C16: a close that is going to be retried (a reconnect is scheduled by it)
\* raises no error signal from the transport: the error field is left as it
\* was, or holds the message initializeApp itself sets when the connect() it
\* awaits is rejected.
C16_NoErrorWhileRetrying ==
  [][(lastOp' \in {"close", "error_close"}
        /\ reconnectAttempts < maxReconnectAttempts) =>
        error' \in {error, ErrInitialize}]_vars

\* C17: the k-th close in a row without a successful open (k = 1..5) schedules
\* one reconnect with delay k * reconnectDelay, at the close itself; a close
\* after the 5th schedules nothing and no reconnect is pending.
C17_LinearBackoff ==
  [][lastOp' \in {"close", "error_close"} =>
        IF closeRun' <= maxReconnectAttempts
        THEN /\ reconnTimers' = Append(reconnTimers, reconnectDelay * closeRun')
             /\ Len(reconnTimers') = 1
        ELSE reconnTimers' = <<>>]_vars

C17_Witness ==
  /\ lastOp = "error_close"
  /\ closeRun = maxReconnectAttempts
  /\ reconnTimers = <<reconnectDelay * maxReconnectAttempts>>

\* C18: a start() made while the channel is not connected sets the error
\* message to 'WebSocket not connected' and changes no other field: the
\* streaming flag, the frame history, the transport (no start_session is
\* sent) and the pacer stay as they were.
C18_StartRejected ==
  [][(lastOp' \in {"start", "start_rejected"} /\ (~wsRef \/ ~isConnected)) =>
        /\ lastOp' = "start_rejected"
        /\ error' = ErrNotConnected
        /\ UNCHANGED <<currentSession, frameHistory, temporalContext,
                       isConnected, isProcessing, isStreaming, delaySeconds,
                       cameraOn, wsRef, intervalRef, timers,
                       reconnectAttempts, sockets, reconnTimers>>]_vars

C18_Witness ==
  /\ lastOp = "start_rejected"
  /\ error = ErrNotConnected
  /\ ~isStreaming
  /\ frameHistory # <<>>
  /\ wsRef /\ ~isConnected

\* C19: a start() made while connected (the service exists and the connected
\* flag is set) is accepted; it transmits a start_session message if and only
\* if no session id is held, keeps the session id, empties the frame history
\* and sets the streaming flag, and the pacer is armed after it unless a query
\* is in flight.
C19_StartAccepted ==
  [][(lastOp' \in {"start", "start_rejected"} /\ wsRef /\ isConnected) =>
        /\ lastOp' = "start"
        /\ PendingStarts(sockets') =
              PendingStarts(sockets) + (IF currentSession = Null THEN 1 ELSE 0)
        /\ currentSession' = currentSession
        /\ frameHistory' = <<>>
        /\ isStreaming'
        /\ (timers' # {}) <=> ~isProcessing]_vars

\* C20: stop() clears the streaming flag and leaves the session id, the frame
\* history and the temporal context unchanged; after it no interval timer is
\* left, and while the streaming flag is clear (from a stop() until the next
\* start()) no tick sends a vlm_query.
C20_StopKeepsData ==
  [][/\ lastOp' = "stop" =>
          /\ ~isStreaming'
          /\ UNCHANGED <<currentSession, frameHistory, temporalContext>>
          /\ timers' = {}
     /\ (~isStreaming /\ isStreaming') => lastOp' = "start"
     /\ ~isStreaming =>
          /\ lastOp' \notin {"tick_sent", "tick_dropped", "tick_noframe"}
          /\ seq' = seq]_vars

C20_Witness ==
  /\ lastOp = "stop"
  /\ ~isStreaming
  /\ currentSession # Null
  /\ frameHistory # <<>>
  /\ temporalContext # Null
  /\ isConnected /\ cameraOn /\ Transmits(sockets)

\* C21: a tick whose captureFrame yields no image sets an error, and no
\* interval timer is armed while the camera is not streaming.
C21_CaptureFailureSurfaced ==
  [][/\ lastOp' = "tick_noframe" => error' # NoError
     /\ ~cameraOn' => timers' = {}]_vars

\* C22: start() and reset(), the operations that empty the frame history, leave
\* the temporal context null.
C22_ClearedTogether ==
  [][lastOp' \in {"start", "reset"} =>
        frameHistory' = <<>> /\ temporalContext' = Null]_vars

\* C23: a successful vlm_response is applied whenever it arrives, also after a
\* stop() or a reset(): the record of the answered query is appended to the
\* frame history (nothing is evicted below the cap) and the temporal context
\* becomes the payload of that response.
C23_LateResponseApplied ==
  [][lastOp' = "vlm_ok" =>
        \E q \in Outstanding(sockets) \ Outstanding(sockets') :
            /\ frameHistory' = addFrame(frameHistory,
                  [frame_id |-> q.id, temporal_context |-> TemporalContextOf(q.id)])
            /\ Len(frameHistory) < HistoryCap =>
                  Len(frameHistory') = Len(frameHistory) + 1
            /\ frameHistory'[Len(frameHistory')].frame_id = q.id
            /\ temporalContext' = TemporalContextOf(q.id)]_vars

\* a response applied after both a stop() and a reset() that followed the
\* sending of its query
C23_Witness ==
  /\ lastOp = "vlm_ok"
  /\ ~isStreaming
  /\ cleared
  /\ Len(frameHistory) = 1
  /\ temporalContext = TemporalContextOf(frameHistory[1].frame_id)

\* C24: a settings change made while an interval timer is armed leaves exactly
\* one timer, created by that change with the delay now configured; when the
\* delay changed, the timer armed before is gone.  Every timer that exists (and
\* so every tick) has the configured delay.
C24_DelayChangeRebuildsTimer ==
  [][/\ (lastOp' = "settings" /\ timers # {}) =>
          /\ timers' = {intervalRef'}
          /\ intervalRef'.delay = delaySeconds'
          /\ delaySeconds' # delaySeconds => timers \cap timers' = {}
     /\ \A t \in timers' : t.delay = delaySeconds']_vars

C24_Witness ==
  /\ lastOp = "settings"
  /\ isStreaming
  /\ delaySeconds = 5
  /\ timers = {[delay |-> 5, session |-> currentSession, cam |-> cameraOn]}

\* C25: at most one interval timer exists, it is the one intervalRef holds, and
\* a timer exists only while the streaming flag and the connected flag are set
\* and the in-flight marker is clear (the step that ends one of the three also
\* removes the timer, so it cannot fire afterwards).
C25_SingleTimer ==
  /\ Cardinality(timers) <= 1
  /\ timers \subseteq {intervalRef}
  /\ timers # {} => (isStreaming /\ isConnected /\ ~isProcessing)

\* the tick that set the in-flight marker has removed its own timer
C25_Witness ==
  /\ lastOp = "tick_sent"
  /\ isStreaming /\ isConnected /\ isProcessing
  /\ timers = {}
  /\ intervalRef = NoTimer

\* C26: every open sets the reconnect attempt count to zero, whatever it was;
\* the first close after an open (no close since) finds the count at zero,
\* counts as attempt 1 of the budget and schedules its reconnect with delay
\* 1 * reconnectDelay, without reporting the budget as exhausted.
C26_OpenResetsAttempts ==
  [][/\ lastOp' = "open" => reconnectAttempts' = 0
     /\ (closeRun = 0 /\ lastOp' \in {"close", "error_close"}) =>
          /\ reconnectAttempts = 0
          /\ reconnectAttempts' = 1
          /\ reconnTimers' = <<reconnectDelay>>
          /\ error' # ErrMaxReconnect]_vars

\* a clean close right after a reopen that followed a failed attempt
C26_Witness ==
  /\ lastOp = "close"
  /\ closeRun = 1
  /\ reconnectAttempts = 1
  /\ reconnTimers = <<reconnectDelay>>
  /\ error = ErrWsConnection

\* C27: an inbound payload that does not parse, or whose type has no
\* registered handler, changes no field of the store, of the pacer or of the
\* transport: no error is set and the socket stays open with its pending
\* requests, so that their answers are still dispatched.
C27_UndispatchedDropped ==
  [][lastOp' \in {"msg_unparsable", "msg_unhandled"} =>
        /\ UNCHANGED NonGhostVars
        /\ error' = error
        /\ \E i \in 1..Len(sockets') : sockets'[i].st = "OPEN"
        /\ Outstanding(sockets') = Outstanding(sockets)]_vars

\* an unparsable payload arrived while a query was in flight; the query is
\* still pending on the open socket
C27_Witness ==
  /\ lastOp = "msg_unparsable"
  /\ isProcessing /\ isConnected
  /\ error = NoError
  /\ \E i \in 1..Len(sockets) :
        sockets[i].st = "OPEN" /\ sockets[i].queries # {}

\* C28: right after an explicit disconnect() the close event of the socket
\* schedules no reconnect, and a reconnect timer that was pending does not
\* open a new connection.
C28_NoReconnectAfterDisconnect ==
  [][lastOp = "disconnect" =>
        /\ lastOp' # "reconnect"
        /\ lastOp' \in {"close", "error_close"} => reconnTimers' = reconnTimers]_vars

\* C29: no vlm_query is transmitted with an absent session id while a
\* start_session request is still waiting for its session_started message.
C29_QueriesCarrySession ==
  [][lastOp' = "tick_sent" =>
        ~(/\ LastSent(sockets', seq').session_id = Null
          /\ PendingStarts(sockets) > 0)]_vars

\* C30: a tick that transmits no vlm_query, because captureFrame returned
\* nothing or because the send was dropped on a socket that is not open, leaves
\* the in-flight marker clear.
C30_MarkerOnlyWhenTransmitted ==
  [][lastOp' \in {"tick_noframe", "tick_dropped"} => ~isProcessing']_vars

====
